---- MODULE Spec2Model ----
(***************************************************************************)
(* A model of main.py, the Blender simulation benchmark harness:           *)
(* the metadata collector (get_cpu_info, get_platform_metadata), the CSV   *)
(* writer (write_results_to_csv), the two tests (test_particle,            *)
(* test_raycast) with the timing wrapper (_bake_and_time), and main.       *)
(*                                                                         *)
(* A Python dict is a sequence of <<key, value>> pairs with distinct keys, *)
(* in insertion order.  A result record is a function from its keys to     *)
(* tagged values (only its key set and values reach the file).  The output *)
(* file is Absent or the sequence of records csv.writer emitted, each a    *)
(* sequence of field strings; the dialect's quoting is not modelled.       *)
(* time.time() reads a clock that never runs backwards and that advances   *)
(* while the host bakes; MaxClock caps it.                                 *)
(***************************************************************************)
EXTENDS Integers, Sequences, FiniteSets, TLC

VARIABLES
    file,              \* the output file: [exists, rows]
    last,              \* the latest write_results_to_csv call
    calls,             \* write_results_to_csv calls made (SpecCsv)
    pc,                \* where main is
    args,              \* the parsed command line
    custom_metadata,   \* main's custom_metadata
    test_configs,      \* main's test_configs
    idx,               \* the configuration being run (enumerate's i)
    step,              \* the host operation the running test is at
    clock,             \* the host's wall clock, what time.time() returns
    start,             \* _bake_and_time's start
    results,           \* main's results
    scene,             \* the host's scene graph
    log,               \* the host operations made, in order
    error,             \* the unhandled exception that ended the run
    file_at_start      \* the output file as the run found it

csv_vars == <<file, last, calls>>

main_vars ==
    <<pc, args, custom_metadata, test_configs, idx, step, clock, start,
      results, scene, log, error, file_at_start>>

vars == <<csv_vars, main_vars>>

(***************************************************************************)
(* Bounds of the model.                                                    *)
(***************************************************************************)
MaxCalls == 2
MaxClock == 2

(***************************************************************************)
(* Python values and their conversions.                                    *)
(***************************************************************************)
StrVal(s) == [t |-> "str", n |-> 0, s |-> s]
IntVal(n) == [t |-> "int", n |-> n, s |-> ""]
FloatVal(n) == [t |-> "float", n |-> n, s |-> ""]
NoneVal == [t |-> "none", n |-> 0, s |-> ""]

\* str(v); a float is carried as its integral value n, printed "n.0".
PyStr(v) ==
    CASE v.t = "str" -> v.s
      [] v.t = "int" -> ToString(v.n)
      [] v.t = "float" -> ToString(v.n) \o ".0"
      [] v.t = "none" -> "None"

\* The field csv.writer emits for a value: None becomes the empty field.
CsvField(v) == IF v.t = "none" THEN "" ELSE PyStr(v)

\* f"{x:.2f}" for a whole number of units.
Fixed2(n) == ToString(n) \o ".00"

(***************************************************************************)
(* dict operations.                                                        *)
(***************************************************************************)
DictKeys(d) == [i \in 1..Len(d) |-> d[i][1]]

DictKeySet(d) == {d[i][1] : i \in 1..Len(d)}

DictGet(d, k) == d[CHOOSE i \in 1..Len(d) : d[i][1] = k][2]

\* d[k] = v: an existing key keeps its position, a new key goes last.
DictSet(d, k, v) ==
    IF k \in DictKeySet(d)
    THEN [i \in 1..Len(d) |-> IF d[i][1] = k THEN <<k, v>> ELSE d[i]]
    ELSE Append(d, <<k, v>>)

RECURSIVE DictUpdate(_, _)
\* d.update(e), also {**d, **e}.
DictUpdate(d, e) ==
    IF e = <<>> THEN d
    ELSE DictUpdate(DictSet(d, e[1][1], e[1][2]), Tail(e))

(***************************************************************************)
(* sorted() over strings: Python compares by code point; KeyOrder lists    *)
(* every string the model sorts, in that order.                            *)
(***************************************************************************)
KeyOrder ==
    <<"a", "b", "c", "cubes", "density", "elapsed_time", "gpu", "hostname",
      "n_frames", "points", "test_file", "test_name">>

Rank(k) == CHOOSE i \in 1..Len(KeyOrder) : KeyOrder[i] = k

StrLess(a, b) == Rank(a) < Rank(b)

RECURSIVE Sorted(_)
Sorted(S) ==
    IF S = {} THEN <<>>
    ELSE LET m == CHOOSE x \in S : \A y \in S : ~StrLess(y, x)
         IN  <<m>> \o Sorted(S \ {m})

(***************************************************************************)
(* The metadata collector.  env is what the host answers:                  *)
(*   psutil  - PSUTIL_AVAILABLE                                            *)
(*   system  - platform.system()                                           *)
(*   cores   - what psutil.cpu_count returns (a count or None)             *)
(*   freq    - whether psutil.cpu_freq() returns a value or None           *)
(*   cpuinfo - whether /proc/cpuinfo holds a "model name" line             *)
(*   fail    - the lookup that raises, or "none"                           *)
(***************************************************************************)
Raised == [raised |-> TRUE, dict |-> <<>>]

Returned(d) == [raised |-> FALSE, dict |-> d]

CpuCounts(env) ==
    <<<<"cpu_physical_cores", PyStr(env.cores)>>,
      <<"cpu_logical_cores", PyStr(env.cores)>>>>

CpuFreq(env) ==
    IF env.fail = "cpu_freq" \/ env.freq = "none" THEN <<>>
    ELSE <<<<"cpu_freq_current_mhz", Fixed2(2400)>>,
           <<"cpu_freq_min_mhz", Fixed2(800)>>,
           <<"cpu_freq_max_mhz", Fixed2(3600)>>>>

CpuMemory(env) ==
    IF env.fail = "virtual_memory" THEN <<>>
    ELSE <<<<"total_ram_gb", Fixed2(16)>>>>

CpuModel(env) ==
    IF env.system = "Linux" /\ env.fail # "cpuinfo" /\ env.cpuinfo = "model"
    THEN <<<<"cpu_model", "Ryzen">>>>
    ELSE <<>>

get_cpu_info(env) ==
    IF env.psutil /\ env.fail \in {"cpu_count_physical", "cpu_count_logical"}
    THEN Raised
    ELSE IF env.fail = "system_linux" THEN Raised
    ELSE Returned(
           (IF env.psutil
            THEN CpuCounts(env) \o CpuFreq(env) \o CpuMemory(env)
            ELSE <<>>)
           \o CpuModel(env))

PlatformLookups ==
    <<"system", "release", "version", "machine", "processor",
      "python_version", "node">>

get_platform_metadata(env) ==
    IF env.fail = "bpy_version" THEN Raised
    ELSE IF \E i \in 1..Len(PlatformLookups) : env.fail = PlatformLookups[i]
    THEN Raised
    ELSE LET metadata ==
                 <<<<"platform", env.system>>,
                   <<"platform_release", "6.1">>,
                   <<"platform_version", "#1 SMP">>,
                   <<"architecture", "x86_64">>,
                   <<"processor", "x86_64">>,
                   <<"python_version", "3.11.7">>,
                   <<"hostname", "bench">>,
                   <<"blender_version", "4.2.0">>>>
             cpu == get_cpu_info(env)
         IN  IF cpu.raised THEN Raised
             ELSE Returned(DictUpdate(metadata, cpu.dict))

(***************************************************************************)
(* The CSV writer.                                                         *)
(***************************************************************************)
Absent == [exists |-> FALSE, rows |-> <<>>]

base_metadata(timestamp, platform_metadata, custom) ==
    DictUpdate(DictUpdate(<<<<"timestamp", timestamp>>>>, platform_metadata),
               custom)

all_result_keys(res) ==
    UNION {DOMAIN res[i] : i \in 1..Len(res)}

\* fieldnames without the sort: the result keys in descending order, one
\* order a set's iteration can give.
fieldnames_unsorted(base, res) ==
    LET up == Sorted(all_result_keys(res))
    IN  DictKeys(base) \o [i \in 1..Len(up) |-> up[Len(up) + 1 - i]]

fieldnames(base, res) ==
    DictKeys(base) \o Sorted(all_result_keys(res))

Mode(append, file_exists) == IF append /\ file_exists THEN "a" ELSE "w"

\* The header only for a file that did not exist.
WritesHeaderOnlyWhenNew(append, file_exists) == ~file_exists

WritesHeader(append, file_exists) == ~file_exists \/ ~append

\* row = {**result, **base_metadata}: the metadata wins.
MergeRowMetadataWins(base, result) ==
    [k \in DictKeySet(base) \cup DOMAIN result |->
        IF k \in DictKeySet(base) THEN StrVal(DictGet(base, k))
        ELSE result[k]]

\* row = {**base_metadata, **result}
MergeRow(base, result) ==
    [k \in DictKeySet(base) \cup DOMAIN result |->
        IF k \in DOMAIN result THEN result[k] ELSE StrVal(DictGet(base, k))]

\* row.get(key) without the restval: str(None) for a missing key.
DictRowRestvalNone(names, row) ==
    [i \in 1..Len(names) |->
        IF names[i] \in DOMAIN row THEN CsvField(row[names[i]])
        ELSE PyStr(NoneVal)]

\* DictWriter.writerow: one field per fieldname, restval "" for a missing key.
DictRow(names, row) ==
    [i \in 1..Len(names) |->
        IF names[i] \in DOMAIN row THEN CsvField(row[names[i]]) ELSE ""]

\* What open(output_path, mode) starts from.
Opened(f, mode) == IF mode = "a" THEN f.rows ELSE <<>>

WrittenFile(f, res, base, append) ==
    LET file_exists == f.exists
        names == fieldnames(base, res)
        mode == Mode(append, file_exists)
        header == IF WritesHeader(append, file_exists)
                  THEN <<names>> ELSE <<>>
        rows == [i \in 1..Len(res) |->
                    DictRow(names, MergeRow(base, res[i]))]
    IN  [exists |-> TRUE, rows |-> Opened(f, mode) \o header \o rows]

NoCall ==
    [status |-> "none", results |-> <<>>, append |-> FALSE,
     before |-> Absent, platform |-> <<>>, custom |-> <<>>,
     base |-> <<>>, names |-> <<>>, fail |-> "none"]

\* write_results_to_csv(results, output_file, custom_metadata, append); `last`
\* records the call: its arguments, the file it found, the lookup that
\* failed under a guard, and its locals platform_metadata, base_metadata
\* and fieldnames; of a call that raised, only the file it found.
write_results_to_csv(res, custom, append, env, timestamp) ==
    LET platform_metadata == get_platform_metadata(env)
        base == base_metadata(timestamp, platform_metadata.dict, custom)
    IN  IF platform_metadata.raised
        THEN /\ file' = file
             /\ last' = [NoCall EXCEPT !.status = "raised",
                                       !.before = file]
        ELSE /\ file' = WrittenFile(file, res, base, append)
             /\ last' = [status |-> "written", results |-> res,
                         append |-> append, before |-> file,
                         platform |-> platform_metadata.dict,
                         custom |-> custom, base |-> base,
                         names |-> fieldnames(base, res),
                         fail |-> env.fail]

(***************************************************************************)
(* Inputs.                                                                 *)
(***************************************************************************)
Timestamps == {"2026-01-01T00:00:00"}

Lookups ==
    {"bpy_version", "system", "release", "version", "machine", "processor",
     "python_version", "node", "cpu_count_physical", "cpu_count_logical",
     "cpu_freq", "virtual_memory", "system_linux", "cpuinfo"}

\* A Linux host with psutil, one without psutil, and a host whose psutil
\* knows neither the core count nor the frequency.
Healthy ==
    {[psutil |-> TRUE, system |-> "Linux", cores |-> IntVal(4),
      freq |-> "ok", cpuinfo |-> "model", fail |-> "none"],
     [psutil |-> FALSE, system |-> "Linux", cores |-> IntVal(4),
      freq |-> "ok", cpuinfo |-> "nomodel", fail |-> "none"],
     [psutil |-> TRUE, system |-> "Darwin", cores |-> NoneVal,
      freq |-> "none", cpuinfo |-> "nomodel", fail |-> "none"]}

\* The first host with one lookup raising.
Failing ==
    {[psutil |-> TRUE, system |-> "Linux", cores |-> IntVal(4),
      freq |-> "ok", cpuinfo |-> "model", fail |-> l] : l \in Lookups}

Envs == Healthy \cup Failing

CustomChoices == {<<>>, <<<<"hostname", "ci">>, <<"gpu", "rtx">>>>}

RecAB == ("a" :> IntVal(1)) @@ ("b" :> StrVal("x"))
RecAC == ("a" :> IntVal(2)) @@ ("c" :> NoneVal)
RecGpu == ("gpu" :> StrVal("igpu")) @@ ("hostname" :> StrVal("lab"))

ResultLists == {<<>>, <<RecAB, RecAC>>, <<RecGpu, RecAB>>}

\* args.metadata: none, or -m pairs with a repeated key and a key that a
\* result record has too.
MetadataArgs ==
    {<<>>,
     <<<<"gpu", "rtx">>, <<"test_name", "mine">>, <<"gpu", "igpu">>>>}

(***************************************************************************)
(* The tests.  A test is the sequence of host operations it makes; each    *)
(* acts on the host's scene graph.                                         *)
(***************************************************************************)
NoScene == [file |-> "", params |-> <<>>, selected |-> FALSE, baked |-> 0]

_bake_and_time == <<"select_set", "time_start", "bake", "time_end">>

\* test_particle setting the frame count before it opens the scene.
test_particle_sets_before_open ==
    <<"set_frame_end", "open_mainfile", "get_object", "set_density">>
    \o _bake_and_time

test_particle ==
    <<"open_mainfile", "set_frame_end", "get_object", "set_density">>
    \o _bake_and_time

test_raycast ==
    <<"open_mainfile", "get_object", "get_node_group", "set_cubes",
      "set_points">>
    \o _bake_and_time

TestSteps(test) ==
    IF test = "test_particle" THEN test_particle ELSE test_raycast

TestFile(test) ==
    IF test = "test_particle" THEN "basic_particle_simulation.blend"
    ELSE "raycasting.blend"

\* The scene graph after the host operation op of a test.
Perform(sc, op, test, params) ==
    CASE op = "open_mainfile" ->
             [NoScene EXCEPT !.file = TestFile(test)]
      [] op = "set_frame_end" ->
             [sc EXCEPT !.params = DictSet(@, "frame_end", params.n_frames)]
      [] op = "set_density" ->
             [sc EXCEPT !.params = DictSet(@, "Input_3", params.density)]
      [] op = "set_cubes" ->
             [sc EXCEPT !.params = DictSet(@, "Points.001", params.cubes)]
      [] op = "set_points" ->
             [sc EXCEPT !.params = DictSet(@, "Points", params.points)]
      [] op = "select_set" -> [sc EXCEPT !.selected = TRUE]
      [] op = "bake" -> [sc EXCEPT !.baked = @ + 1]
      [] OTHER -> sc

\* The record of a test run with its default parameters, not the
\* configuration's.
TestResultDefaults(test, params, elapsed_time) ==
    IF test = "test_particle"
    THEN [test_name |-> StrVal("particle"),
          test_file |-> StrVal(TestFile(test)),
          n_frames |-> IntVal(100),
          density |-> IntVal(1000),
          elapsed_time |-> FloatVal(elapsed_time)]
    ELSE [test_name |-> StrVal("raycast"),
          test_file |-> StrVal(TestFile(test)),
          cubes |-> IntVal(10000),
          points |-> IntVal(10000),
          elapsed_time |-> FloatVal(elapsed_time)]

\* The record a test returns.
TestResult(test, params, elapsed_time) ==
    IF test = "test_particle"
    THEN [test_name |-> StrVal("particle"),
          test_file |-> StrVal(TestFile(test)),
          n_frames |-> IntVal(params.n_frames),
          density |-> IntVal(params.density),
          elapsed_time |-> FloatVal(elapsed_time)]
    ELSE [test_name |-> StrVal("raycast"),
          test_file |-> StrVal(TestFile(test)),
          cubes |-> IntVal(params.cubes),
          points |-> IntVal(params.points),
          elapsed_time |-> FloatVal(elapsed_time)]

(***************************************************************************)
(* main.                                                                   *)
(***************************************************************************)
particle_n_frames == <<50, 100>>
particle_density == <<500, 1000>>
raycast_cubes == <<1000, 5000>>
raycast_points == <<1000, 5000>>

\* A product whose first list varies fastest.
product_first_fastest(a, b) ==
    [k \in 1..(Len(a) * Len(b)) |->
        <<a[((k - 1) % Len(a)) + 1], b[((k - 1) \div Len(a)) + 1]>>]

\* itertools.product(a, b): the last list varies fastest.
product(a, b) ==
    [k \in 1..(Len(a) * Len(b)) |->
        <<a[((k - 1) \div Len(b)) + 1], b[((k - 1) % Len(b)) + 1]>>]

ParticleConfigs ==
    LET pairs == product(particle_n_frames, particle_density)
    IN  [k \in 1..Len(pairs) |->
            [test |-> "test_particle",
             params |-> [n_frames |-> pairs[k][1], density |-> pairs[k][2]]]]

RaycastConfigs ==
    LET pairs == product(raycast_cubes, raycast_points)
    IN  [k \in 1..Len(pairs) |->
            [test |-> "test_raycast",
             params |-> [cubes |-> pairs[k][1], points |-> pairs[k][2]]]]

GenerateConfigs == ParticleConfigs \o RaycastConfigs

\* for key, value in args.metadata: custom_metadata[key] = value
ParseMetadata(pairs) == DictUpdate(<<>>, pairs)

Config == test_configs[idx]

Op == TestSteps(Config.test)[step]

\* parse_args, the custom metadata and the test configurations.
Start ==
    /\ pc = "start"
    /\ \E no_append \in BOOLEAN, metadata \in MetadataArgs :
          /\ args' = [no_append |-> no_append, metadata |-> metadata]
          /\ custom_metadata' = ParseMetadata(metadata)
    /\ test_configs' = GenerateConfigs
    /\ idx' = 1
    /\ step' = 1
    /\ results' = <<>>
    /\ file_at_start' = file
    /\ pc' = IF GenerateConfigs = <<>> THEN "write" ELSE "run"
    /\ UNCHANGED <<csv_vars, clock, start, scene, log, error>>

\* A host operation of the running test returns; the bake takes time.
HostStep ==
    /\ pc = "run"
    /\ Op \notin {"time_start", "time_end"}
    /\ scene' = Perform(scene, Op, Config.test, Config.params)
    /\ \E t \in clock..MaxClock :
          /\ Op = "bake" \/ t = clock
          /\ clock' = t
    /\ log' = Append(log, <<idx, Op>>)
    /\ step' = step + 1
    /\ UNCHANGED <<csv_vars, pc, args, custom_metadata, test_configs, idx,
                   start, results, error, file_at_start>>

\* The exception of a test caught: main goes on to write what it has.
HostRaiseCaught ==
    /\ pc = "run"
    /\ Op \notin {"time_start", "time_end"}
    /\ pc' = "write"
    /\ error' = "test"
    /\ UNCHANGED <<csv_vars, args, custom_metadata, test_configs, idx, step,
                   clock, start, results, scene, log, file_at_start>>

\* A host operation of the running test raises: nothing catches it.
HostRaise ==
    /\ pc = "run"
    /\ Op \notin {"time_start", "time_end"}
    /\ pc' = "aborted"
    /\ error' = "test"
    /\ UNCHANGED <<csv_vars, args, custom_metadata, test_configs, idx, step,
                   clock, start, results, scene, log, file_at_start>>

\* start = time.time()
TimeStart ==
    /\ pc = "run"
    /\ Op = "time_start"
    /\ start' = clock
    /\ log' = Append(log, <<idx, Op>>)
    /\ step' = step + 1
    /\ UNCHANGED <<csv_vars, pc, args, custom_metadata, test_configs, idx,
                   clock, results, scene, error, file_at_start>>

\* end = time.time(); the test returns its record and main appends it.
TimeEnd ==
    /\ pc = "run"
    /\ Op = "time_end"
    /\ LET end == clock
       IN  results' = Append(results,
                             TestResult(Config.test, Config.params,
                                        end - start))
    /\ log' = Append(log, <<idx, Op>>)
    /\ step' = 1
    /\ start' = 0
    /\ idx' = idx + 1
    /\ pc' = IF idx = Len(test_configs) THEN "write" ELSE "run"
    /\ UNCHANGED <<csv_vars, args, custom_metadata, test_configs, clock,
                   scene, error, file_at_start>>

\* write_results_to_csv(results, args.output, custom_metadata,
\*                      append=not args.no_append)
WriteResults ==
    /\ pc = "write"
    /\ \E env \in Envs, ts \in Timestamps :
          /\ write_results_to_csv(results, custom_metadata,
                                  ~args.no_append, env, ts)
          /\ pc' = IF get_platform_metadata(env).raised
                   THEN "aborted" ELSE "done"
          /\ error' = IF get_platform_metadata(env).raised
                      THEN "metadata" ELSE error
    /\ UNCHANGED <<calls, args, custom_metadata, test_configs, idx, step,
                   clock, start, results, scene, log, file_at_start>>

Next == Start \/ HostStep \/ HostRaise \/ TimeStart \/ TimeEnd \/ WriteResults

(***************************************************************************)
(* SpecCsv: any sequence of write_results_to_csv calls on one output path. *)
(***************************************************************************)
InitCsv ==
    /\ file = Absent
    /\ last = NoCall
    /\ calls = 0
    /\ pc = "csv"
    /\ args = [no_append |-> FALSE, metadata |-> <<>>]
    /\ custom_metadata = <<>>
    /\ test_configs = <<>>
    /\ idx = 0
    /\ step = 0
    /\ clock = 0
    /\ start = 0
    /\ results = <<>>
    /\ scene = NoScene
    /\ log = <<>>
    /\ error = "none"
    /\ file_at_start = Absent

CsvCall ==
    /\ pc = "csv"
    /\ calls < MaxCalls
    /\ \E res \in ResultLists, custom \in CustomChoices,
          append \in BOOLEAN, env \in Envs, ts \in Timestamps :
          write_results_to_csv(res, custom, append, env, ts)
    /\ calls' = calls + 1
    /\ UNCHANGED main_vars

NextCsv == CsvCall

SpecCsv == InitCsv /\ [][NextCsv]_vars

(***************************************************************************)
(* Spec: one run of main, on an output path that holds nothing or what an  *)
(* earlier run on a host without psutil wrote.                             *)
(***************************************************************************)
PriorResults ==
    [k \in 1..Len(GenerateConfigs) |->
        TestResult(GenerateConfigs[k].test, GenerateConfigs[k].params, 1)]

PriorFile ==
    WrittenFile(Absent, PriorResults,
                base_metadata("2025-12-31T00:00:00",
                              get_platform_metadata(
                                  [psutil |-> FALSE, system |-> "Linux",
                                   cores |-> IntVal(4), freq |-> "ok",
                                   cpuinfo |-> "nomodel",
                                   fail |-> "none"]).dict,
                              <<>>),
                TRUE)

Init ==
    /\ file \in {Absent, PriorFile}
    /\ last = NoCall
    /\ calls = 0
    /\ pc = "start"
    /\ args = [no_append |-> FALSE, metadata |-> <<>>]
    /\ custom_metadata = <<>>
    /\ test_configs = <<>>
    /\ idx = 0
    /\ step = 0
    /\ clock = 0
    /\ start = 0
    /\ results = <<>>
    /\ scene = NoScene
    /\ log = <<>>
    /\ error = "none"
    /\ file_at_start = Absent

Spec == Init /\ [][Next]_vars

(***************************************************************************)
(* What the claims speak of.                                               *)
(***************************************************************************)
RECURSIVE FirstOccurrences(_, _)
\* s without the elements of seen and without repeats.
FirstOccurrences(s, seen) ==
    IF s = <<>> THEN <<>>
    ELSE IF Head(s) \in seen THEN FirstOccurrences(Tail(s), seen)
    ELSE <<Head(s)>> \o FirstOccurrences(Tail(s), seen \cup {Head(s)})

\* timestamp, then the platform keys, then the custom keys, each key where
\* it was first inserted.
MetadataKeys ==
    FirstOccurrences(<<"timestamp">> \o DictKeys(last.platform)
                         \o DictKeys(last.custom), {})

ResultKeys == UNION {DOMAIN last.results[i] : i \in 1..Len(last.results)}

\* s lists exactly the keys of S, ascending.
IsSortedListOf(s, S) ==
    /\ {s[i] : i \in 1..Len(s)} = S
    /\ \A i \in 1..Len(s), j \in 1..Len(s) : i < j => StrLess(s[i], s[j])

HeaderWritten == ~last.before.exists \/ ~last.append

NRows == Len(last.results)

\* The i-th row the latest call wrote.
LastRow(i) == file.rows[Len(file.rows) - NRows + i]

\* The field of a column for a record: the record's value, else the
\* metadata value, else empty.
ExpectedCell(result, k) ==
    IF k \in DOMAIN result THEN CsvField(result[k])
    ELSE IF k \in DictKeySet(last.base) THEN DictGet(last.base, k)
    ELSE ""

ExpectedRow(i) ==
    [j \in 1..Len(last.names) |-> ExpectedCell(last.results[i], last.names[j])]

\* C1: the header write_results_to_csv uses is the metadata keys in
\* insertion order (timestamp, platform keys, custom keys) followed by the
\* sorted set of all keys of all result records; it is the row written as
\* the header.
C1_HeaderIsMetadataThenSortedKeys ==
    last.status = "written" =>
        LET n == Len(MetadataKeys)
        IN  /\ Len(last.names) >= n
            /\ SubSeq(last.names, 1, n) = MetadataKeys
            /\ IsSortedListOf(SubSeq(last.names, n + 1, Len(last.names)),
                              ResultKeys)
            /\ HeaderWritten => file.rows[1] = last.names

C1_Witness ==
    /\ last.status = "written"
    /\ HeaderWritten
    /\ "hostname" \in DictKeySet(last.custom)
    /\ Len(last.results) = 2
    /\ DOMAIN last.results[1] # DOMAIN last.results[2]
    /\ file.rows[1] = last.names

\* C2: a call with append on a file that exists adds no header row and
\* keeps what the file held, followed by the call's rows; any other call
\* leaves exactly one header row followed by exactly the call's rows.
C2_AppendKeepsOverwriteWritesOneHeader ==
    last.status = "written" =>
        IF last.append /\ last.before.exists
        THEN LET old == Len(last.before.rows)
             IN  /\ Len(file.rows) = old + NRows
                 /\ SubSeq(file.rows, 1, old) = last.before.rows
                 /\ \A i \in 1..NRows : file.rows[old + i] = ExpectedRow(i)
        ELSE /\ Len(file.rows) = 1 + NRows
             /\ file.rows[1] = last.names
             /\ \A i \in 1..NRows : file.rows[1 + i] = ExpectedRow(i)

C2_Witness ==
    /\ last.status = "written"
    /\ last.append
    /\ last.before.exists
    /\ Len(last.before.rows) > 1
    /\ NRows > 0
    /\ last.before.rows[1] # last.names

\* C3: every data row of the file has as many fields as the file's header,
\* and the rows of the latest run hold, at each position, the value for the
\* column the header names there.
C3_RowsMatchHeader ==
    (file.exists /\ Len(file.rows) > 0) =>
        /\ \A i \in 2..Len(file.rows) : Len(file.rows[i]) = Len(file.rows[1])
        /\ last.status = "written" =>
               \A i \in 1..NRows, j \in 1..Len(file.rows[1]) :
                   LastRow(i)[j] = ExpectedCell(last.results[i],
                                                file.rows[1][j])

\* C4: where a result record has a key that is a metadata key too, the row
\* holds the record's value in that key's columns.
C4_ResultValueOverridesMetadata ==
    last.status = "written" =>
        \A i \in 1..NRows, j \in 1..Len(last.names) :
            (/\ last.names[j] \in DOMAIN last.results[i]
             /\ last.names[j] \in DictKeySet(last.base))
            => LastRow(i)[j] = CsvField(last.results[i][last.names[j]])

C4_Witness ==
    /\ last.status = "written"
    /\ \E i \in 1..NRows, j \in 1..Len(last.names) :
          /\ last.names[j] = "hostname"
          /\ "hostname" \in DOMAIN last.results[i]
          /\ DictGet(last.base, "hostname") = "ci"
          /\ LastRow(i)[j] = "lab"

\* C7: a lookup that raises never aborts the metadata collection, and the
\* fields of the other lookups are collected.
C7_EveryLookupIsGuarded ==
    /\ last.status # "raised"
    /\ (last.status = "written" /\ last.fail # "none") =>
           {"platform", "platform_release", "platform_version",
            "architecture", "processor", "python_version", "hostname",
            "blender_version", "cpu_physical_cores", "cpu_logical_cores"}
               \subseteq DictKeySet(last.platform)

\* C8 as amended: the header ends with the sorted union of the records'
\* keys, every row has one field per header column, and a column whose key
\* the record lacks holds the metadata value of that key if the metadata
\* has the key, and is empty otherwise.
C8_MissingFieldIsMetadataOrEmpty ==
    last.status = "written" =>
        /\ IsSortedListOf(SubSeq(last.names, Len(last.base) + 1,
                                 Len(last.names)), ResultKeys)
        /\ \A i \in 1..NRows :
              /\ Len(LastRow(i)) = Len(last.names)
              /\ \A j \in 1..Len(last.names) :
                    last.names[j] \notin DOMAIN last.results[i] =>
                        LastRow(i)[j] =
                            IF last.names[j] \in DictKeySet(last.base)
                            THEN DictGet(last.base, last.names[j])
                            ELSE ""

C8_Witness ==
    /\ last.status = "written"
    /\ NRows = 2
    /\ DOMAIN last.results[1] = {"a", "b"}
    /\ DOMAIN last.results[2] = {"a", "c"}
    /\ \E j \in 1..Len(last.names) :
          /\ last.names[j] = "b"
          /\ LastRow(1)[j] = "x"
          /\ LastRow(2)[j] = ""

\* C8 as claimed: in the columns of the result keys (those after the
\* metadata keys), the field of a key the record lacks is empty.
C8_MissingResultFieldIsEmpty ==
    last.status = "written" =>
        \A i \in 1..NRows :
            /\ Len(LastRow(i)) = Len(last.names)
            /\ \A j \in (Len(last.base) + 1)..Len(last.names) :
                  last.names[j] \notin DOMAIN last.results[i] =>
                      LastRow(i)[j] = ""

\* The configuration of list positions a and b of a family.
ParticleAt(a, b) ==
    [test |-> "test_particle",
     params |-> [n_frames |-> particle_n_frames[a],
                 density |-> particle_density[b]]]

RaycastAt(a, b) ==
    [test |-> "test_raycast",
     params |-> [cubes |-> raycast_cubes[a], points |-> raycast_points[b]]]

NParticle == Len(particle_n_frames) * Len(particle_density)

NRaycast == Len(raycast_cubes) * Len(raycast_points)

\* C5: the sweep holds |list_a| x |list_b| configurations per family, none
\* twice, the first list varying slowest; the particle configurations are
\* (50,500), (50,1000), (100,500), (100,1000) and precede the raycast ones.
C5_SweepIsOrderedProduct ==
    pc \in {"run", "write", "done", "aborted"} =>
        /\ Len(test_configs) = NParticle + NRaycast
        /\ \A i \in 1..Len(test_configs), j \in 1..Len(test_configs) :
              i # j => test_configs[i] # test_configs[j]
        /\ \A a \in 1..Len(particle_n_frames), b \in 1..Len(particle_density) :
              test_configs[(a - 1) * Len(particle_density) + b]
                  = ParticleAt(a, b)
        /\ \A a \in 1..Len(raycast_cubes), b \in 1..Len(raycast_points) :
              test_configs[NParticle + (a - 1) * Len(raycast_points) + b]
                  = RaycastAt(a, b)
        /\ [k \in 1..4 |-> <<test_configs[k].params.n_frames,
                             test_configs[k].params.density>>]
               = <<<<50, 500>>, <<50, 1000>>, <<100, 500>>, <<100, 1000>>>>

C5_Witness ==
    /\ pc = "run"
    /\ idx = 2
    /\ Config = ParticleAt(1, 2)
    /\ Len(test_configs) = 8

\* C6: once a test has raised, the run has ended and the output file is
\* what it was before the run: no header and no row was written, whatever
\* tests had completed.
C6_FailedRunLeavesFileUntouched ==
    error = "test" =>
        /\ pc = "aborted"
        /\ file = file_at_start
        /\ last.status = "none"

C6_Witness ==
    /\ error = "test"
    /\ Len(results) >= 2
    /\ file.exists
    /\ Len(file.rows) > 0

\* The parameters a test sets in the scene, from its configuration.
Mutations(config) ==
    IF config.test = "test_particle"
    THEN {<<"frame_end", config.params.n_frames>>,
          <<"Input_3", config.params.density>>}
    ELSE {<<"Points.001", config.params.cubes>>,
          <<"Points", config.params.points>>}

IsMutation(op) ==
    op \in {"set_frame_end", "set_density", "set_cubes", "set_points"}

\* Whether test k made the host operation op before position p of the log.
Made(p, k, op) == \E q \in 1..(p - 1) : log[q] = <<k, op>>

\* C9: tests run one after another in configuration order.  Of every host
\* operation in the log: it belongs to the test of the operation before it
\* or to the next test; a test starts by opening its scene, after the
\* previous test's bake returned and its end time was read; a parameter is
\* set after the open and before the bake; the bake comes after the start
\* reading and before the end reading, once per test.  At the bake the
\* scene is the test's file, reloaded, with the configuration's parameters.
C9_TestsRunSequentially ==
    /\ \A p \in 1..Len(log) :
          LET k == log[p][1]
              op == log[p][2]
          IN  /\ k \in 1..Len(test_configs)
              /\ p = 1 => k = 1
              /\ p > 1 => log[p - 1][1] \in {k - 1, k}
              /\ op = "open_mainfile" <=> (p = 1 \/ log[p - 1][1] = k - 1)
              /\ (p > 1 /\ log[p - 1][1] = k - 1) =>
                     /\ log[p - 1] = <<k - 1, "time_end">>
                     /\ Made(p, k - 1, "bake")
              /\ (p > 1 /\ log[p - 1][1] = k) => log[p - 1][2] # "time_end"
              /\ IsMutation(op) =>
                     /\ Made(p, k, "open_mainfile")
                     /\ ~Made(p, k, "bake")
              /\ op = "time_start" => ~Made(p, k, "bake")
              /\ op = "bake" =>
                     /\ Made(p, k, "time_start")
                     /\ ~Made(p, k, "time_end")
                     /\ ~Made(p, k, "bake")
              /\ op = "time_end" =>
                     /\ Made(p, k, "bake")
                     /\ Made(p, k, "time_start")
    /\ (log # <<>> /\ log[Len(log)][2] = "bake") =>
          LET k == log[Len(log)][1]
          IN  /\ k = idx
              /\ scene.file = TestFile(test_configs[k].test)
              /\ {scene.params[i] : i \in 1..Len(scene.params)}
                     = Mutations(test_configs[k])
              /\ scene.selected
              /\ scene.baked = 1
    /\ (log # <<>> /\ log[Len(log)][2] = "time_end") =>
          Len(results) = log[Len(log)][1]

C9_Witness ==
    /\ log # <<>>
    /\ log[Len(log)] = <<6, "bake">>
    /\ Made(Len(log), 5, "bake")
    /\ Made(Len(log), 1, "bake")
    /\ clock > start

TestName(test) == IF test = "test_particle" THEN "particle" ELSE "raycast"

\* C10: a run in which every test completed wrote one row per
\* configuration (8), in configuration order; each row holds the test name
\* and the parameters of its own configuration.
C10_CompletedRunWritesOneRowPerConfig ==
    pc = "done" =>
        /\ last.status = "written"
        /\ NRows = Len(test_configs)
        /\ NRows = 8
        /\ Len(file.rows) =
               IF HeaderWritten THEN 1 + NRows
               ELSE Len(file_at_start.rows) + NRows
        /\ \A i \in 1..NRows, j \in 1..Len(last.names) :
              LET params == test_configs[i].params
              IN  /\ last.names[j] = "test_name" =>
                         LastRow(i)[j] = TestName(test_configs[i].test)
                  /\ last.names[j] \in DOMAIN params =>
                         LastRow(i)[j] = ToString(params[last.names[j]])

C10_Witness ==
    /\ pc = "done"
    /\ ~HeaderWritten
    /\ "test_name" \in DictKeySet(last.custom)
    /\ Len(file.rows) = 17

====
